---------------------------- MODULE Spec2Model ----------------------------
(***************************************************************************)
(* Zone runtime, rain lock and schedule runs of backend/sprinkler_service. *)
(*                                                                         *)
(* The service is one asyncio event loop.  A coroutine runs without        *)
(* interruption until it awaits something that is not finished; what it    *)
(* made runnable (a created task, a cancelled sleep, the awaiters of a     *)
(* finished task) is appended to the loop's ready queue and run in FIFO    *)
(* order (loop.call_soon).  The model keeps that queue in `ready`.         *)
(* Request handlers are entered by the HTTP server between any two         *)
(* callbacks.                                                              *)
(*                                                                         *)
(* asyncio.CancelledError derives from BaseException (Python 3.8 and       *)
(* later), so the `except Exception` clauses of the source do not catch    *)
(* it; `finally: return` does swallow it.                                  *)
(*                                                                         *)
(* Time is counted in ticks of PollSeconds seconds.  Deadlines are kept as *)
(* the number of ticks still to go.  datetime.utcnow() of the schedule     *)
(* evaluation is a calendar instant [day, sec], day 0 being a Monday.      *)
(***************************************************************************)
EXTENDS Integers, Sequences, FiniteSets, TLC

\* ------------------------------------------------------------------ bounds
NumPins == 2            \* configured pins (zones 1..NumPins)
MaxTasks == 2           \* zone-timer tasks alive at once
MaxCalls == 1           \* request handlers suspended at once
MaxMinutes == 1         \* longest duration of a start command or a step
MaxRuns == 2            \* schedule-run tasks alive at once
MaxPasses == 6          \* passes of the loop around one due minute
MaxOrderLen == 3        \* longest list of ids in a reorder request or a file

\* --------------------------------------------------------------- constants
PollSeconds == 30
SecondsPerMinute == 60
MinutesPerHour == 60
HoursPerDay == 24
DaysPerWeek == 7
RAIN_LOCK_DEFAULT_HOURS == 24
DEFAULT_GPIO_PINS == <<12, 16, 20, 21, 26, 19, 13, 6, 5, 11, 9, 10, 22, 27, 17, 4>>
DAY_NAMES == <<"Mon", "Tue", "Wed", "Thu", "Fri", "Sat", "Sun">>

GPIO_PINS == SubSeq(DEFAULT_GPIO_PINS, 1, NumPins)
PinIds == {GPIO_PINS[i] : i \in 1..NumPins}
NoPin == 0

\* zone ids a command may carry: a negative one, zero, the mapped zones, one
\* past the last
ZoneIds == (-1)..(NumPins + 1)
MappedZones == 1..NumPins
Minutes == 1..MaxMinutes
Hours == {RAIN_LOCK_DEFAULT_HOURS}

TicksPerMinute == SecondsPerMinute \div PollSeconds
TicksPerHour == MinutesPerHour * TicksPerMinute
SecondsPerDay == HoursPerDay * MinutesPerHour * SecondsPerMinute

NoLock == -1            \* _rain_lock_until = None
Done == 0               \* the task of a job record, once it has finished
TaskIds == 1..MaxTasks
CallIds == 1..MaxCalls
RunIds == 1..MaxRuns

\* ---------------------------------------------------------------- schedules
\* a validated ScheduleModel; duration 0 stands for None
SchedIds == {"A", "B"}
SchedA ==
    [id |-> "A", start_time |-> [hour |-> 6, minute |-> 0], days |-> {"Mon", "Tue"},
     is_enabled |-> TRUE, duration |-> 0,
     sequence |-> <<[pin |-> GPIO_PINS[1], duration |-> 1],
                    [pin |-> GPIO_PINS[NumPins], duration |-> 1]>>]
Payloads == {SchedA}
\* a second schedule, due at the same minute, whose only step is on the zone
\* of the first step of schedule A
SchedB ==
    [id |-> "B", start_time |-> [hour |-> 6, minute |-> 0], days |-> {"Mon", "Tue"},
     is_enabled |-> TRUE, duration |-> 0,
     sequence |-> <<[pin |-> GPIO_PINS[1], duration |-> 1]>>]
LoopPayloads == {SchedA, SchedB}
NoSchedule ==
    [id |-> "", start_time |-> [hour |-> 0, minute |-> 0], days |-> {},
     is_enabled |-> FALSE, duration |-> 0, sequence |-> <<>>]

\* calendar instants: day 0 is a Monday
DateTime(day, hour, minute, second) ==
    [day |-> day, sec |-> (hour * MinutesPerHour + minute) * SecondsPerMinute + second]
NoRun == [day |-> -1, sec |-> 0]
\* what datetime.utcnow() returns to the successive passes of the schedule
\* loop: two polls inside the due minute, one after it, one the next day
Polls == <<DateTime(0, 6, 0, 0), DateTime(0, 6, 0, 30), DateTime(0, 6, 1, 0), DateTime(1, 6, 0, 30)>>
Nows == {Polls[i] : i \in 1..Len(Polls)}

VARIABLES
    pins,               \* pin id -> energized (pi.write(gpio, 0))
    active_jobs,        \* _active_jobs: zone -> job record
    rain_lock_until,    \* ticks until _rain_lock_until, or NoLock
    tasks,              \* zone-timer tasks
    calls,              \* suspended request handlers
    ready,              \* the event loop's ready queue
    schedules,          \* ScheduleStore._state.schedules
    order,              \* ScheduleStore._state.order
    last_run,           \* ScheduleStore._last_run
    active_tasks,       \* ScheduleStore._active_tasks: id -> run task, 0 if none
    runs,               \* schedule-run tasks (_execute_schedule)
    clock,              \* the pass of the schedule loop that comes next
    launched,           \* id -> the dates on which the loop launched a run of it
    probe,              \* the arguments and the result of a call looked at alone
    last                \* the handler or step just run and what it answered

vars == <<pins, active_jobs, rain_lock_until, tasks, calls, ready,
          schedules, order, last_run, active_tasks, runs, clock, launched, probe, last>>

\* ------------------------------------------------------------ _active_jobs
NoJob == [task |-> -1, until |-> 0, source |-> "none"]

JobKeys(jobs) == {z \in ZoneIds : jobs[z] # NoJob}
\* mutant: the record is never removed
JobPop_keep(jobs, zone) == jobs
JobPop(jobs, zone) == [jobs EXCEPT ![zone] = NoJob]

\* the record of a task that finished without its finally block
JobsTaskDone(jobs, t) ==
    [z \in ZoneIds |-> IF jobs[z].task = t THEN [jobs[z] EXCEPT !.task = Done] ELSE jobs[z]]

\* the orders in which the keys of a dict may come
Orders(S) == {s \in [1..Cardinality(S) -> S] : \A i, j \in 1..Cardinality(S) : i # j => s[i] # s[j]}

\* ------------------------------------------------------------------ helpers
gpio_for_zone(zone) ==
    LET idx == zone - 1 IN
    IF idx >= 0 /\ idx < Len(GPIO_PINS) THEN GPIO_PINS[idx + 1]
    ELSE IF idx < 0 /\ idx >= -Len(GPIO_PINS) THEN GPIO_PINS[Len(GPIO_PINS) + idx + 1]
    ELSE NoPin

\* mutant: the lock is never seen
RainLockActive_never == FALSE
RainLockActive == rain_lock_until # NoLock /\ rain_lock_until > 0

FreeTask ==
    [st |-> "free", zone |-> 0, left |-> 0, source |-> "none", cancel |-> FALSE, waiters |-> <<>>]
FreeCall == [kind |-> "none", zone |-> 0, minutes |-> 0, nleft |-> 0, result |-> "none"]

\* awaited: how the timer the run last awaited came to its end
FreeRun ==
    [st |-> "free", sched |-> NoSchedule, k |-> 0, cancel |-> FALSE, timer |-> 0,
     awaited |-> "none"]

HasFreeTask == \E t \in TaskIds : tasks[t].st = "free"
NewTask == CHOOSE t \in TaskIds : tasks[t].st = "free" /\ \A u \in TaskIds : tasks[u].st = "free" => t <= u
HasFreeCall == \E c \in CallIds : calls[c].kind = "none"
NewCall == CHOOSE c \in CallIds : calls[c].kind = "none" /\ \A d \in CallIds : calls[d].kind = "none" => c <= d

Entry(kind, id, zone) == [kind |-> kind, id |-> id, zone |-> zone]
AtHead(e) == ready # <<>> /\ Head(ready) = e

Label(op, result) == [op |-> op, result |-> result]
Internal == Label("step", "none")

\* Task.cancel(): a sleeping task is woken with CancelledError; a task whose
\* step is already queued gets it thrown in when the step runs
CancelTask(tk, t) ==
    [tk EXCEPT ![t].cancel = TRUE,
               ![t].st = IF tk[t].st = "sleeping" THEN "woken" ELSE tk[t].st]
CancelReady(tk, t, q) ==
    IF tk[t].st = "sleeping" THEN Append(q, Entry("step", t, tk[t].zone)) ELSE q

AddWaiter(tk, t, e) == [tk EXCEPT ![t].waiters = Append(tk[t].waiters, e)]

\* the result of a finished task, as seen by the handlers awaiting it
SetResults(cl, waiters, res) ==
    [c \in CallIds |-> IF \E i \in 1..Len(waiters) : waiters[i] = Entry("wake", c, 0)
                       THEN [cl[c] EXCEPT !.result = res] ELSE cl[c]]

\* how `await task` ends for the run: the sleep ran its whole time, or the
\* task was cancelled before that
Awaited(t) == IF tasks[t].st = "woken" /\ tasks[t].left = 0 THEN "elapsed" ELSE "cut short"

\* a run awaiting a finished timer has its own step queued
WakeRuns(rn, waiters, how) ==
    [r \in RunIds |-> IF \E i \in 1..Len(waiters) : waiters[i] = Entry("run", r, 0)
                      THEN [rn[r] EXCEPT !.st = "queued", !.timer = 0, !.awaited = how]
                      ELSE rn[r]]

\* no call is looked at alone
NoProbe == [fn |-> "none"]

Init ==
    /\ pins = [p \in PinIds |-> FALSE]
    /\ active_jobs = [z \in ZoneIds |-> NoJob]
    /\ rain_lock_until = NoLock
    /\ tasks = [t \in TaskIds |-> FreeTask]
    /\ calls = [c \in CallIds |-> FreeCall]
    /\ ready = <<>>
    /\ schedules = [sid \in SchedIds |-> NoSchedule]
    /\ order = <<>>
    /\ last_run = [sid \in SchedIds |-> NoRun]
    /\ active_tasks = [sid \in SchedIds |-> 0]
    /\ runs = [r \in RunIds |-> FreeRun]
    /\ clock = 1
    /\ launched = [sid \in SchedIds |-> <<>>]
    /\ probe = NoProbe
    /\ last = Label("init", "none")

\* ------------------------------------------------------------- _zone_timer
\* first step of a timer task: energize and go to sleep.  A task cancelled
\* before its first step ends without running its body; an unmapped zone
\* raises before the try block
zone_timer_start(t) ==
    /\ UNCHANGED <<clock, launched, probe>>
    /\ UNCHANGED <<schedules, order, last_run, active_tasks>>
    /\ AtHead(Entry("step", t, tasks[t].zone))
    /\ tasks[t].st = "pending"
    /\ UNCHANGED rain_lock_until
    /\ last' = Internal
    /\ IF tasks[t].cancel \/ gpio_for_zone(tasks[t].zone) = NoPin
       THEN /\ tasks' = [tasks EXCEPT ![t] = FreeTask]
            /\ active_jobs' = JobsTaskDone(active_jobs, t)
            /\ calls' = SetResults(calls, tasks[t].waiters,
                                   IF tasks[t].cancel THEN "cancelled" ELSE "error")
            /\ ready' = Tail(ready) \o tasks[t].waiters
            /\ runs' = WakeRuns(runs, tasks[t].waiters, Awaited(t))
            /\ pins' = pins
       ELSE /\ pins' = [pins EXCEPT ![gpio_for_zone(tasks[t].zone)] = TRUE]
            /\ tasks' = [tasks EXCEPT ![t].st = "sleeping"]
            /\ ready' = Tail(ready)
            /\ UNCHANGED <<active_jobs, calls, runs>>

\* the timer of asyncio.sleep fires
sleep_elapsed(t) ==
    /\ UNCHANGED <<clock, launched, probe>>
    /\ UNCHANGED <<schedules, order, last_run, active_tasks, runs>>
    /\ tasks[t].st = "sleeping" /\ tasks[t].left = 0
    /\ tasks' = [tasks EXCEPT ![t].st = "woken"]
    /\ ready' = Append(ready, Entry("step", t, tasks[t].zone))
    /\ last' = Internal
    /\ UNCHANGED <<pins, active_jobs, rain_lock_until, calls>>

\* mutant: the finally block does not write the pin
zone_timer_finally_nowrite(t) ==
    /\ UNCHANGED <<clock, launched, probe>>
    /\ UNCHANGED <<schedules, order, last_run, active_tasks>>
    /\ AtHead(Entry("step", t, tasks[t].zone))
    /\ tasks[t].st = "woken"
    /\ pins' = pins
    /\ active_jobs' = JobPop(active_jobs, tasks[t].zone)
    /\ tasks' = [tasks EXCEPT ![t] = FreeTask]
    /\ calls' = SetResults(calls, tasks[t].waiters,
                           IF tasks[t].cancel THEN "cancelled" ELSE "ok")
    /\ ready' = Tail(ready) \o tasks[t].waiters
    /\ runs' = WakeRuns(runs, tasks[t].waiters, Awaited(t))
    /\ last' = Label("zone_timer", IF tasks[t].cancel THEN "cancelled" ELSE "elapsed")
    /\ UNCHANGED rain_lock_until

\* the finally block, after the sleep returned or was cancelled
zone_timer_finally(t) ==
    /\ UNCHANGED <<clock, launched, probe>>
    /\ UNCHANGED <<schedules, order, last_run, active_tasks>>
    /\ AtHead(Entry("step", t, tasks[t].zone))
    /\ tasks[t].st = "woken"
    /\ pins' = [pins EXCEPT ![gpio_for_zone(tasks[t].zone)] = FALSE]
    /\ active_jobs' = JobPop(active_jobs, tasks[t].zone)
    /\ tasks' = [tasks EXCEPT ![t] = FreeTask]
    /\ calls' = SetResults(calls, tasks[t].waiters,
                           IF tasks[t].cancel THEN "cancelled" ELSE "ok")
    /\ ready' = Tail(ready) \o tasks[t].waiters
    /\ runs' = WakeRuns(runs, tasks[t].waiters, Awaited(t))
    /\ last' = Label("zone_timer", IF tasks[t].cancel THEN "cancelled" ELSE "elapsed")
    /\ UNCHANGED rain_lock_until

\* asyncio.create_task(_zone_timer(...)) and the record of the new job
SpawnTimer(tk, zone, minutes, source) ==
    [tk EXCEPT ![NewTask] = [st |-> "pending", zone |-> zone,
                             left |-> minutes * TicksPerMinute, source |-> source,
                             cancel |-> FALSE, waiters |-> <<>>]]
RecordJob(jobs, zone, minutes, source) ==
    [jobs EXCEPT ![zone] = [task |-> NewTask, until |-> minutes * TicksPerMinute, source |-> source]]

StartAnswer(zone) == IF gpio_for_zone(zone) = NoPin THEN "InvalidZone" ELSE "ok"

\* ------------------------------------------- start_zone (POST /zone/on/{zone})
\* _start_zone_internal(zone, minutes, "manual", cancel_existing=True, wait=False)
\* up to its first suspension, then the handler's own _gpio_for_zone
start_zone(zone, minutes) ==
    /\ UNCHANGED <<clock, launched, probe>>
    /\ UNCHANGED <<schedules, order, last_run, active_tasks, runs>>
    /\ UNCHANGED rain_lock_until
    /\ IF minutes <= 0
       THEN /\ last' = Label("start_zone", "ValueError")
            /\ UNCHANGED <<pins, active_jobs, tasks, calls, ready>>
       ELSE IF RainLockActive
       THEN /\ last' = Label("start_zone", "RainLockActive")
            /\ UNCHANGED <<pins, active_jobs, tasks, calls, ready>>
       ELSE IF active_jobs[zone] # NoJob /\ active_jobs[zone].task # Done
       THEN \* task.cancel(); await task
            /\ HasFreeCall
            /\ tasks' = AddWaiter(CancelTask(tasks, active_jobs[zone].task),
                                  active_jobs[zone].task, Entry("wake", NewCall, 0))
            /\ ready' = CancelReady(tasks, active_jobs[zone].task, ready)
            /\ calls' = [calls EXCEPT ![NewCall] =
                            [FreeCall EXCEPT !.kind = "start_zone", !.zone = zone, !.minutes = minutes]]
            /\ last' = Label("start_zone", "await")
            /\ UNCHANGED <<pins, active_jobs>>
       ELSE /\ HasFreeTask
            /\ tasks' = SpawnTimer(tasks, zone, minutes, "manual")
            /\ active_jobs' = RecordJob(active_jobs, zone, minutes, "manual")
            /\ ready' = Append(ready, Entry("step", NewTask, zone))
            /\ last' = Label("start_zone", StartAnswer(zone))
            /\ UNCHANGED <<pins, calls>>

\* start_zone resumed at `await task` (line 434)
resume_start_zone(c) ==
    /\ UNCHANGED <<clock, launched, probe>>
    /\ UNCHANGED <<schedules, order, last_run, active_tasks, runs>>
    /\ AtHead(Entry("wake", c, 0))
    /\ calls[c].kind = "start_zone"
    /\ UNCHANGED <<pins, rain_lock_until>>
    /\ calls' = [calls EXCEPT ![c] = FreeCall]
    /\ IF calls[c].result = "cancelled"
       THEN \* CancelledError is not an Exception: it leaves the handler
            /\ ready' = Tail(ready)
            /\ last' = Label("start_zone", "CancelledError")
            /\ UNCHANGED <<active_jobs, tasks>>
       ELSE /\ tasks' = SpawnTimer(tasks, calls[c].zone, calls[c].minutes, "manual")
            /\ active_jobs' = RecordJob(active_jobs, calls[c].zone, calls[c].minutes, "manual")
            /\ ready' = Append(Tail(ready), Entry("step", NewTask, calls[c].zone))
            /\ last' = Label("start_zone", StartAnswer(calls[c].zone))

\* ------------------------------------------------------------ _turn_zone_off
TurnOffPins(pn, zone) ==
    IF gpio_for_zone(zone) = NoPin THEN pn ELSE [pn EXCEPT ![gpio_for_zone(zone)] = FALSE]
TurnOffJobs(jobs, zone) ==
    IF gpio_for_zone(zone) = NoPin THEN jobs ELSE JobPop(jobs, zone)
TurnOffAnswer(zone) == IF gpio_for_zone(zone) = NoPin THEN "InvalidZone" ELSE "ok"

\* ------------------------------------------- stop_zone (POST /zone/off/{zone})
stop_zone(zone) ==
    /\ UNCHANGED <<clock, launched, probe>>
    /\ UNCHANGED <<schedules, order, last_run, active_tasks, runs>>
    /\ UNCHANGED rain_lock_until
    /\ IF active_jobs[zone] # NoJob /\ active_jobs[zone].task # Done
       THEN /\ HasFreeCall
            /\ tasks' = AddWaiter(CancelTask(tasks, active_jobs[zone].task),
                                  active_jobs[zone].task, Entry("wake", NewCall, 0))
            /\ ready' = CancelReady(tasks, active_jobs[zone].task, ready)
            /\ calls' = [calls EXCEPT ![NewCall] = [FreeCall EXCEPT !.kind = "stop_zone", !.zone = zone]]
            /\ last' = Label("stop_zone", "await")
            /\ UNCHANGED <<pins, active_jobs>>
       ELSE /\ pins' = TurnOffPins(pins, zone)
            /\ active_jobs' = TurnOffJobs(active_jobs, zone)
            /\ last' = Label("stop_zone", TurnOffAnswer(zone))
            /\ UNCHANGED <<tasks, calls, ready>>

\* stop_zone resumed at `await task` (line 637)
resume_stop_zone(c) ==
    /\ UNCHANGED <<clock, launched, probe>>
    /\ UNCHANGED <<schedules, order, last_run, active_tasks, runs>>
    /\ AtHead(Entry("wake", c, 0))
    /\ calls[c].kind = "stop_zone"
    /\ UNCHANGED <<rain_lock_until, tasks>>
    /\ calls' = [calls EXCEPT ![c] = FreeCall]
    /\ ready' = Tail(ready)
    /\ IF calls[c].result = "cancelled"
       THEN /\ last' = Label("stop_zone", "CancelledError")
            /\ UNCHANGED <<pins, active_jobs>>
       ELSE /\ pins' = TurnOffPins(pins, calls[c].zone)
            /\ active_jobs' = TurnOffJobs(active_jobs, calls[c].zone)
            /\ last' = Label("stop_zone", TurnOffAnswer(calls[c].zone))

\* ---------------------------------------------- rain lock and shutdown of zones
\* _rain_lock_until = utcnow() + hours, then _shutdown_all_zones() up to the
\* await of asyncio.gather, which makes one task per key of _active_jobs
Engage(op, hours) ==
    /\ UNCHANGED <<clock, launched, probe>>
    /\ UNCHANGED <<schedules, order, last_run, active_tasks, runs>>
    /\ rain_lock_until' = hours * TicksPerHour
    /\ UNCHANGED <<pins, tasks>>
    /\ IF JobKeys(active_jobs) = {}
       THEN /\ active_jobs' = [z \in ZoneIds |-> NoJob]
            /\ last' = Label(op, "ok")
            /\ UNCHANGED <<calls, ready>>
       ELSE /\ HasFreeCall
            /\ calls' = [calls EXCEPT ![NewCall] =
                            [FreeCall EXCEPT !.kind = op, !.nleft = Cardinality(JobKeys(active_jobs))]]
            /\ \E keys \in Orders(JobKeys(active_jobs)) :
                   ready' = ready \o [i \in 1..Len(keys) |-> Entry("child", NewCall, keys[i])]
            /\ last' = Label(op, "await")
            /\ UNCHANGED active_jobs

set_rain_lock(hours) == Engage("set_rain_lock", hours)

\* mutant: the clear also empties the job map
clear_rain_lock_sweep ==
    /\ UNCHANGED <<clock, launched, probe>>
    /\ UNCHANGED <<schedules, order, last_run, active_tasks, runs>>
    /\ rain_lock_until' = NoLock
    /\ active_jobs' = [z \in ZoneIds |-> NoJob]
    /\ last' = Label("clear_rain_lock", "ok")
    /\ UNCHANGED <<pins, tasks, calls, ready>>

clear_rain_lock ==
    /\ UNCHANGED <<clock, launched, probe>>
    /\ UNCHANGED <<schedules, order, last_run, active_tasks, runs>>
    /\ rain_lock_until' = NoLock
    /\ last' = Label("clear_rain_lock", "ok")
    /\ UNCHANGED <<pins, active_jobs, tasks, calls, ready>>

\* POST /api/rain-delay; hours = 0 stands for a payload without hours
trigger_rain_delay(active, hours) ==
    IF active
    THEN Engage("trigger_rain_delay", IF hours # 0 THEN hours ELSE RAIN_LOCK_DEFAULT_HOURS)
    ELSE /\ rain_lock_until' = NoLock
         /\ last' = Label("trigger_rain_delay", "cleared")
         /\ UNCHANGED <<pins, active_jobs, tasks, calls, ready>>
         /\ UNCHANGED <<schedules, order, last_run, active_tasks, runs, clock, launched, probe>>

\* one task of the gather: _turn_zone_off(zone); gather keeps its exception
shutdown_turn_zone_off(c, zone) ==
    /\ UNCHANGED <<clock, launched, probe>>
    /\ UNCHANGED <<schedules, order, last_run, active_tasks, runs>>
    /\ AtHead(Entry("child", c, zone))
    /\ pins' = TurnOffPins(pins, zone)
    /\ active_jobs' = TurnOffJobs(active_jobs, zone)
    /\ ready' = Append(Tail(ready), Entry("childdone", c, zone))
    /\ last' = Internal
    /\ UNCHANGED <<rain_lock_until, tasks, calls>>

\* gather's done callback of one task; the last one completes the gather
gather_done_callback(c, zone) ==
    /\ UNCHANGED <<clock, launched, probe>>
    /\ UNCHANGED <<schedules, order, last_run, active_tasks, runs>>
    /\ AtHead(Entry("childdone", c, zone))
    /\ calls' = [calls EXCEPT ![c].nleft = calls[c].nleft - 1]
    /\ ready' = IF calls[c].nleft = 1 THEN Append(Tail(ready), Entry("wake", c, 0)) ELSE Tail(ready)
    /\ last' = Internal
    /\ UNCHANGED <<pins, active_jobs, rain_lock_until, tasks>>

\* _shutdown_all_zones resumed after the gather: _active_jobs.clear(), and the
\* handler's answer (set_rain_lock formats _rain_lock_until unguarded)
resume_shutdown_all_zones(c) ==
    /\ UNCHANGED <<clock, launched, probe>>
    /\ UNCHANGED <<schedules, order, last_run, active_tasks, runs>>
    /\ AtHead(Entry("wake", c, 0))
    /\ calls[c].kind \in {"set_rain_lock", "trigger_rain_delay"}
    /\ active_jobs' = [z \in ZoneIds |-> NoJob]
    /\ calls' = [calls EXCEPT ![c] = FreeCall]
    /\ ready' = Tail(ready)
    /\ last' = Label(calls[c].kind,
                     IF calls[c].kind = "set_rain_lock" /\ rain_lock_until = NoLock
                     THEN "AttributeError" ELSE "ok")
    /\ UNCHANGED <<pins, rain_lock_until, tasks>>

\* ------------------------------------------------------------ ScheduleModel
WeekdayName(dt) == DAY_NAMES[(dt.day % DaysPerWeek) + 1]

start_datetime_on(schedule, target) ==
    [day |-> target.day,
     sec |-> (schedule.start_time.hour * MinutesPerHour + schedule.start_time.minute) * SecondsPerMinute]

\* a datetime plus seconds, and the order of datetimes
DtPlus(dt, seconds) ==
    [day |-> dt.day + ((dt.sec + seconds) \div SecondsPerDay), sec |-> (dt.sec + seconds) % SecondsPerDay]
DtLeq(a, b) == a.day < b.day \/ (a.day = b.day /\ a.sec <= b.sec)
DtLess(a, b) == a.day < b.day \/ (a.day = b.day /\ a.sec < b.sec)

\* mutant: the schedule is due only at the very second of its start time
should_run_instant(schedule, now, lastRun) ==
    IF ~schedule.is_enabled THEN FALSE
    ELSE IF schedule.days = {} THEN FALSE
    ELSE IF WeekdayName(now) \notin schedule.days THEN FALSE
    ELSE IF now # start_datetime_on(schedule, now) THEN FALSE
    ELSE IF lastRun # NoRun /\ lastRun.day = now.day THEN FALSE
    ELSE TRUE

\* mutant: the due minute includes its last instant
should_run_closed(schedule, now, lastRun) ==
    IF ~schedule.is_enabled THEN FALSE
    ELSE IF schedule.days = {} THEN FALSE
    ELSE IF WeekdayName(now) \notin schedule.days THEN FALSE
    ELSE IF ~(DtLeq(start_datetime_on(schedule, now), now)
              /\ DtLeq(now, DtPlus(start_datetime_on(schedule, now), SecondsPerMinute)))
    THEN FALSE
    ELSE IF lastRun # NoRun /\ lastRun.day = now.day THEN FALSE
    ELSE TRUE

\* mutant: the date of the last run is not looked at
should_run_nolast(schedule, now, lastRun) ==
    IF ~schedule.is_enabled THEN FALSE
    ELSE IF schedule.days = {} THEN FALSE
    ELSE IF WeekdayName(now) \notin schedule.days THEN FALSE
    ELSE DtLeq(start_datetime_on(schedule, now), now)
           /\ DtLess(now, DtPlus(start_datetime_on(schedule, now), SecondsPerMinute))

should_run(schedule, now, lastRun) ==
    IF ~schedule.is_enabled THEN FALSE
    ELSE IF schedule.days = {} THEN FALSE
    ELSE IF WeekdayName(now) \notin schedule.days THEN FALSE
    ELSE IF ~(DtLeq(start_datetime_on(schedule, now), now)
              /\ DtLess(now, DtPlus(start_datetime_on(schedule, now), SecondsPerMinute)))
    THEN FALSE
    ELSE IF lastRun # NoRun /\ lastRun.day = now.day THEN FALSE
    ELSE TRUE

\* ------------------------------------------------------------ ScheduleStore
\* create_schedule (POST /api/schedules): 409 on a known id, else upsert
create_schedule(payload) ==
    /\ UNCHANGED <<clock, launched, probe>>
    /\ UNCHANGED <<pins, active_jobs, rain_lock_until, tasks, calls, ready>>
    /\ UNCHANGED <<last_run, active_tasks, runs>>
    /\ IF schedules[payload.id] # NoSchedule
       THEN /\ last' = Label("create_schedule", "Conflict")
            /\ UNCHANGED <<schedules, order>>
       ELSE /\ schedules' = [schedules EXCEPT ![payload.id] = payload]
            /\ order' = Append(order, payload.id)
            /\ last' = Label("create_schedule", "created")

\* PUT /api/schedules/{id} with a matching id: ScheduleStore.upsert, which
\* replaces the schedule or appends a new one
update_schedule(payload) ==
    /\ UNCHANGED <<clock, launched, probe>>
    /\ UNCHANGED <<pins, active_jobs, rain_lock_until, tasks, calls, ready>>
    /\ UNCHANGED <<last_run, active_tasks, runs>>
    /\ schedules' = [schedules EXCEPT ![payload.id] = payload]
    /\ order' = IF schedules[payload.id] = NoSchedule THEN Append(order, payload.id) ELSE order
    /\ last' = Label("update_schedule",
                     IF schedules[payload.id] = NoSchedule THEN "added" ELSE "replaced")

\* ------------------------------------------------------ _evaluate_schedules
\* mutant: the loop dispatches nothing while a run is still there
Dispatched_serial(now) ==
    IF \E r \in RunIds : runs[r].st # "free" THEN <<>>
    ELSE SelectSeq(order, LAMBDA sid : /\ schedules[sid] # NoSchedule
                                       /\ active_tasks[sid] = 0
                                       /\ should_run(schedules[sid], now, last_run[sid]))

\* the ids the loop dispatches at `now`, in list order
Dispatched(now) ==
    SelectSeq(order, LAMBDA sid : /\ schedules[sid] # NoSchedule
                                  /\ active_tasks[sid] = 0
                                  /\ should_run(schedules[sid], now, last_run[sid]))

FreeRuns == {r \in RunIds : runs[r].st = "free"}
\* the i-th smallest free run slot
NthFreeRun(i) == CHOOSE r \in FreeRuns : Cardinality({q \in FreeRuns : q < r}) = i - 1
DispatchIndex(now, sid) == CHOOSE i \in 1..Len(Dispatched(now)) : Dispatched(now)[i] = sid
IsDispatched(now, sid) == \E i \in 1..Len(Dispatched(now)) : Dispatched(now)[i] = sid

\* one pass of the loop: mark_run, create_task(_execute_schedule(schedule)),
\* set_active_task, add_done_callback for every due schedule
evaluate_schedules(now) ==
    /\ UNCHANGED <<pins, active_jobs, rain_lock_until, tasks, calls, schedules, order, probe>>
    /\ clock' = clock + 1
    /\ IF RainLockActive
       THEN /\ last' = Label("evaluate_schedules", "locked")
            /\ UNCHANGED <<ready, last_run, active_tasks, runs, launched>>
       ELSE /\ Len(Dispatched(now)) <= Cardinality(FreeRuns)
            /\ launched' = [sid \in SchedIds |-> IF IsDispatched(now, sid)
                                                  THEN Append(launched[sid], now.day)
                                                  ELSE launched[sid]]
            /\ last_run' = [sid \in SchedIds |-> IF IsDispatched(now, sid) THEN now ELSE last_run[sid]]
            /\ active_tasks' = [sid \in SchedIds |->
                                   IF IsDispatched(now, sid)
                                   THEN NthFreeRun(DispatchIndex(now, sid)) ELSE active_tasks[sid]]
            /\ runs' = [r \in RunIds |->
                          IF \E i \in 1..Len(Dispatched(now)) : NthFreeRun(i) = r
                          THEN [st |-> "pending",
                                sched |-> schedules[Dispatched(now)[CHOOSE i \in 1..Len(Dispatched(now)) : NthFreeRun(i) = r]],
                                k |-> 1, cancel |-> FALSE, timer |-> 0, awaited |-> "none"]
                          ELSE runs[r]]
            /\ ready' = ready \o [i \in 1..Len(Dispatched(now)) |-> Entry("run", NthFreeRun(i), 0)]
            /\ last' = Label("evaluate_schedules",
                             IF Dispatched(now) = <<>> THEN "idle" ELSE "dispatched")

\* -------------------------------------------------------- _execute_schedule
Steps(schedule) ==
    IF schedule.sequence # <<>> THEN schedule.sequence
    ELSE IF schedule.duration # 0 THEN <<[pin |-> GPIO_PINS[1], duration |-> schedule.duration]>>
    ELSE <<>>

\* GPIO_PINS.index(pin) + 1, or 0 for a pin that is not managed
zone_for_pin(pin) ==
    IF \E i \in 1..Len(GPIO_PINS) : GPIO_PINS[i] = pin
    THEN CHOOSE i \in 1..Len(GPIO_PINS) : GPIO_PINS[i] = pin /\ \A j \in 1..(i - 1) : GPIO_PINS[j] # pin
    ELSE 0

\* the zone of step k of the run, and whether the step gets as far as
\* calling _start_zone_internal
StepZone(r) ==
    IF runs[r].k \in 1..Len(Steps(runs[r].sched))
    THEN zone_for_pin(Steps(runs[r].sched)[runs[r].k].pin) ELSE 0
CallsStartZone(r) ==
    /\ ~(runs[r].st = "pending" /\ runs[r].cancel)
    /\ runs[r].k \in 1..Len(Steps(runs[r].sched))
    /\ StepZone(r) # 0

\* mutant: the step does not look at the rain lock
StepOutcome_unlocked(r) ==
    LET steps == Steps(runs[r].sched)
        k == runs[r].k
    IN  IF runs[r].st = "pending" /\ runs[r].cancel THEN "cancelled"
        ELSE IF k > Len(steps) THEN "completed"
        ELSE IF zone_for_pin(steps[k].pin) = 0 THEN "InvalidPin"
        ELSE IF steps[k].duration <= 0 THEN "ValueError"
        ELSE IF active_jobs[zone_for_pin(steps[k].pin)] # NoJob THEN "ZoneBusy"
        ELSE "await"

\* mutant: the step starts its zone over a job that is already there
StepOutcome_restart(r) ==
    LET steps == Steps(runs[r].sched)
        k == runs[r].k
    IN  IF runs[r].st = "pending" /\ runs[r].cancel THEN "cancelled"
        ELSE IF k > Len(steps) THEN "completed"
        ELSE IF zone_for_pin(steps[k].pin) = 0 THEN "InvalidPin"
        ELSE IF steps[k].duration <= 0 THEN "ValueError"
        ELSE IF RainLockActive THEN "RainLockActive"
        ELSE "await"

\* how step k of the run ends at once, or "await" when its timer was started:
\* _start_zone_internal(zone, duration, "schedule:<id>", cancel_existing=False, wait=True)
StepOutcome(r) ==
    LET steps == Steps(runs[r].sched)
        k == runs[r].k
    IN  IF runs[r].st = "pending" /\ runs[r].cancel THEN "cancelled"
        ELSE IF k > Len(steps) THEN "completed"
        ELSE IF zone_for_pin(steps[k].pin) = 0 THEN "InvalidPin"
        ELSE IF steps[k].duration <= 0 THEN "ValueError"
        ELSE IF RainLockActive THEN "RainLockActive"
        ELSE IF active_jobs[zone_for_pin(steps[k].pin)] # NoJob THEN "ZoneBusy"
        ELSE "await"

\* mutant: a step that cannot start is skipped and the run goes on with the
\* next one
execute_schedule_continue(r) ==
    /\ UNCHANGED <<clock, launched, probe>>
    /\ AtHead(Entry("run", r, 0))
    /\ runs[r].st \in {"pending", "queued"}
    /\ UNCHANGED <<pins, rain_lock_until, calls, schedules, order, last_run, active_tasks>>
    /\ last' = Label("execute_schedule", StepOutcome(r))
    /\ IF StepOutcome(r) = "await"
       THEN LET step == Steps(runs[r].sched)[runs[r].k]
                zone == zone_for_pin(step.pin)
            IN  /\ HasFreeTask
                /\ tasks' = AddWaiter(SpawnTimer(tasks, zone, step.duration, runs[r].sched.id),
                                      NewTask, Entry("run", r, 0))
                /\ active_jobs' = RecordJob(active_jobs, zone, step.duration, runs[r].sched.id)
                /\ ready' = Append(Tail(ready), Entry("step", NewTask, zone))
                /\ runs' = [runs EXCEPT ![r].st = "waiting", ![r].k = runs[r].k + 1,
                                        ![r].cancel = FALSE, ![r].timer = NewTask,
                                        ![r].awaited = "none"]
       ELSE IF StepOutcome(r) \in {"ZoneBusy", "RainLockActive", "InvalidPin"}
       THEN /\ runs' = [runs EXCEPT ![r].st = "queued", ![r].k = runs[r].k + 1,
                                    ![r].awaited = "none"]
            /\ ready' = Append(Tail(ready), Entry("run", r, 0))
            /\ UNCHANGED <<tasks, active_jobs>>
       ELSE /\ runs' = [runs EXCEPT ![r].st = "done", ![r].cancel = FALSE, ![r].awaited = "none"]
            /\ ready' = Append(Tail(ready), Entry("rundone", r, 0))
            /\ UNCHANGED <<tasks, active_jobs>>

\* mutant: the step does not await its timer (wait=False), the run goes on
\* at once
execute_schedule_nowait(r) ==
    /\ UNCHANGED <<clock, launched, probe>>
    /\ AtHead(Entry("run", r, 0))
    /\ runs[r].st \in {"pending", "queued"}
    /\ UNCHANGED <<pins, rain_lock_until, calls, schedules, order, last_run, active_tasks>>
    /\ last' = Label("execute_schedule", StepOutcome(r))
    /\ IF StepOutcome(r) = "await"
       THEN LET step == Steps(runs[r].sched)[runs[r].k]
                zone == zone_for_pin(step.pin)
            IN  /\ HasFreeTask
                /\ tasks' = SpawnTimer(tasks, zone, step.duration, runs[r].sched.id)
                /\ active_jobs' = RecordJob(active_jobs, zone, step.duration, runs[r].sched.id)
                /\ ready' = Tail(ready) \o <<Entry("step", NewTask, zone), Entry("run", r, 0)>>
                /\ runs' = [runs EXCEPT ![r].st = "queued", ![r].k = runs[r].k + 1,
                                        ![r].cancel = FALSE, ![r].timer = NewTask,
                                        ![r].awaited = "none"]
       ELSE /\ runs' = [runs EXCEPT ![r].st = "done", ![r].cancel = FALSE, ![r].awaited = "none"]
            /\ ready' = Append(Tail(ready), Entry("rundone", r, 0))
            /\ UNCHANGED <<tasks, active_jobs>>

\* a step of the run task: from its start, or from `await task` (line 443,
\* whose `finally: return until` swallows whatever the await raised), up to
\* the next await or the end of the run
execute_schedule(r) ==
    /\ UNCHANGED <<clock, launched, probe>>
    /\ AtHead(Entry("run", r, 0))
    /\ runs[r].st \in {"pending", "queued"}
    /\ UNCHANGED <<pins, rain_lock_until, calls, schedules, order, last_run, active_tasks>>
    /\ last' = Label("execute_schedule", StepOutcome(r))
    /\ IF StepOutcome(r) = "await"
       THEN LET step == Steps(runs[r].sched)[runs[r].k]
                zone == zone_for_pin(step.pin)
            IN  /\ HasFreeTask
                /\ tasks' = AddWaiter(SpawnTimer(tasks, zone, step.duration, runs[r].sched.id),
                                      NewTask, Entry("run", r, 0))
                /\ active_jobs' = RecordJob(active_jobs, zone, step.duration, runs[r].sched.id)
                /\ ready' = Append(Tail(ready), Entry("step", NewTask, zone))
                /\ runs' = [runs EXCEPT ![r].st = "waiting", ![r].k = runs[r].k + 1,
                                        ![r].cancel = FALSE, ![r].timer = NewTask,
                                        ![r].awaited = "none"]
       ELSE /\ runs' = [runs EXCEPT ![r].st = "done", ![r].cancel = FALSE, ![r].awaited = "none"]
            /\ ready' = Append(Tail(ready), Entry("rundone", r, 0))
            /\ UNCHANGED <<tasks, active_jobs>>

\* mutant: the run has no done callback
run_done_callback_lost(r) ==
    /\ UNCHANGED <<clock, launched, probe>>
    /\ AtHead(Entry("rundone", r, 0))
    /\ ready' = Tail(ready)
    /\ last' = Internal
    /\ UNCHANGED <<pins, active_jobs, rain_lock_until, tasks, calls>>
    /\ UNCHANGED <<schedules, order, last_run, active_tasks, runs>>

\* the done callback of a run: create_task(clear_active_task(identifier))
run_done_callback(r) ==
    /\ UNCHANGED <<clock, launched, probe>>
    /\ AtHead(Entry("rundone", r, 0))
    /\ ready' = Append(Tail(ready), Entry("clear", r, 0))
    /\ last' = Internal
    /\ UNCHANGED <<pins, active_jobs, rain_lock_until, tasks, calls>>
    /\ UNCHANGED <<schedules, order, last_run, active_tasks, runs>>

\* Task.cancel() of a run: passed on to the timer it awaits, else kept for
\* its next step
CancelRunTasks(tk, rn, x) ==
    IF rn[x].st = "waiting" THEN CancelTask(tk, rn[x].timer) ELSE tk
CancelRunReady(tk, rn, x, q) ==
    IF rn[x].st = "waiting" THEN CancelReady(tk, rn[x].timer, q) ELSE q
CancelRun(rn, x) ==
    IF rn[x].st \in {"pending", "queued"} THEN [rn EXCEPT ![x].cancel = TRUE] ELSE rn

\* ScheduleStore.clear_active_task(identifier), run for the finished run r
clear_active_task(r) ==
    LET sid == runs[r].sched.id
        existing == active_tasks[sid]
        live == existing # 0 /\ runs[existing].st # "done"
    IN  /\ AtHead(Entry("clear", r, 0))
        /\ tasks' = IF live THEN CancelRunTasks(tasks, runs, existing) ELSE tasks
        /\ ready' = IF live THEN CancelRunReady(tasks, runs, existing, Tail(ready)) ELSE Tail(ready)
        /\ runs' = [(IF live THEN CancelRun(runs, existing) ELSE runs) EXCEPT ![r] = FreeRun]
        /\ active_tasks' = [active_tasks EXCEPT ![sid] = 0]
        /\ last' = Label("clear_active_task", IF live THEN "cancelled" ELSE "cleared")
        /\ UNCHANGED <<pins, active_jobs, rain_lock_until, calls, schedules, order, last_run>>
        /\ UNCHANGED <<clock, launched, probe>>

\* list.remove(x): the list without the first x in it
RemoveFirst(seq, x) ==
    IF \E i \in 1..Len(seq) : seq[i] = x
    THEN LET i == CHOOSE i \in 1..Len(seq) : seq[i] = x /\ \A j \in 1..(i - 1) : seq[j] # x
         IN  SubSeq(seq, 1, i - 1) \o SubSeq(seq, i + 1, Len(seq))
    ELSE seq

\* DELETE /api/schedules/{id}: ScheduleStore.delete drops the schedule, its
\* place in the order, its last-run time and its run handle, and cancels the
\* run task of that handle if it is not done
delete_schedule(sid) ==
    LET existing == active_tasks[sid]
        live == existing # 0 /\ runs[existing].st # "done"
    IN  /\ schedules' = [schedules EXCEPT ![sid] = NoSchedule]
        /\ order' = RemoveFirst(order, sid)
        /\ last_run' = [last_run EXCEPT ![sid] = NoRun]
        /\ active_tasks' = [active_tasks EXCEPT ![sid] = 0]
        /\ tasks' = IF live THEN CancelRunTasks(tasks, runs, existing) ELSE tasks
        /\ ready' = IF live THEN CancelRunReady(tasks, runs, existing, ready) ELSE ready
        /\ runs' = IF live THEN CancelRun(runs, existing) ELSE runs
        /\ launched' = [launched EXCEPT ![sid] = <<>>]
        /\ last' = Label("delete_schedule",
                         IF schedules[sid] = NoSchedule THEN "NotFound" ELSE "deleted")
        /\ UNCHANGED <<pins, active_jobs, rain_lock_until, calls, clock, probe>>

\* ---------------------------------------------------------------------- time
Counting ==
    \/ \E t \in TaskIds : tasks[t].st = "sleeping"
    \/ \E z \in ZoneIds : active_jobs[z].until > 0

Elapse(n, d) == IF n > d THEN n - d ELSE 0

\* the clock moves on once the loop is idle: by one tick while something
\* counts down, else straight to the end of the rain lock
AdvanceTime ==
    LET d == IF Counting THEN 1 ELSE IF RainLockActive THEN rain_lock_until ELSE 0 IN
    /\ ready = <<>>
    /\ \A t \in TaskIds : tasks[t].st = "sleeping" => tasks[t].left > 0
    /\ d > 0
    /\ tasks' = [t \in TaskIds |-> IF tasks[t].st = "sleeping"
                                   THEN [tasks[t] EXCEPT !.left = Elapse(tasks[t].left, d)]
                                   ELSE tasks[t]]
    /\ active_jobs' = [z \in ZoneIds |-> [active_jobs[z] EXCEPT !.until = Elapse(active_jobs[z].until, d)]]
    /\ rain_lock_until' = IF rain_lock_until = NoLock THEN NoLock ELSE Elapse(rain_lock_until, d)
    /\ last' = Internal
    /\ UNCHANGED <<pins, calls, ready, schedules, order, last_run, active_tasks, runs>>
    /\ UNCHANGED <<clock, launched, probe>>

\* manual control and the rain delay
ZoneNext ==
    \/ \E t \in TaskIds : zone_timer_start(t)
    \/ \E t \in TaskIds : sleep_elapsed(t)
    \/ \E t \in TaskIds : zone_timer_finally(t)
    \/ \E zone \in MappedZones, minutes \in Minutes : start_zone(zone, minutes)
    \/ \E c \in CallIds : resume_start_zone(c)
    \/ \E zone \in MappedZones : stop_zone(zone)
    \/ \E c \in CallIds : resume_stop_zone(c)
    \/ \E hours \in Hours : set_rain_lock(hours)
    \/ clear_rain_lock
    \/ \E active \in BOOLEAN, hours \in {0} \cup Hours : trigger_rain_delay(active, hours)
    \/ \E c \in CallIds, zone \in ZoneIds : shutdown_turn_zone_off(c, zone)
    \/ \E c \in CallIds, zone \in ZoneIds : gather_done_callback(c, zone)
    \/ \E c \in CallIds : resume_shutdown_all_zones(c)
    \/ AdvanceTime

ZoneSpec == Init /\ [][ZoneNext]_vars

\* the schedule loop and its runs, next to manual starts and the rain lock
ScheduleNext ==
    \/ \E t \in TaskIds : zone_timer_start(t)
    \/ \E t \in TaskIds : sleep_elapsed(t)
    \/ \E t \in TaskIds : zone_timer_finally(t)
    \/ \E zone \in MappedZones, minutes \in Minutes : start_zone(zone, minutes)
    \/ \E c \in CallIds : resume_start_zone(c)
    \/ \E hours \in Hours : set_rain_lock(hours)
    \/ \E c \in CallIds, zone \in ZoneIds : shutdown_turn_zone_off(c, zone)
    \/ \E c \in CallIds, zone \in ZoneIds : gather_done_callback(c, zone)
    \/ \E c \in CallIds : resume_shutdown_all_zones(c)
    \/ \E payload \in Payloads : create_schedule(payload)
    \/ clock <= Len(Polls) /\ evaluate_schedules(Polls[clock])
    \/ \E r \in RunIds : execute_schedule(r)
    \/ \E r \in RunIds : run_done_callback(r)
    \/ \E r \in RunIds : clear_active_task(r)
    \/ AdvanceTime

ScheduleSpec == Init /\ [][ScheduleNext]_vars

\* start and stop requests with any zone id in the path
AnyZoneNext ==
    \/ \E t \in TaskIds : zone_timer_start(t)
    \/ \E t \in TaskIds : sleep_elapsed(t)
    \/ \E t \in TaskIds : zone_timer_finally(t)
    \/ \E zone \in ZoneIds, minutes \in Minutes : start_zone(zone, minutes)
    \/ \E c \in CallIds : resume_start_zone(c)
    \/ \E zone \in ZoneIds : stop_zone(zone)
    \/ \E c \in CallIds : resume_stop_zone(c)
    \/ AdvanceTime

AnyZoneSpec == Init /\ [][AnyZoneNext]_vars

\* the callback at the head of the ready queue, of a timer or of a run
ReadyStep ==
    \/ \E t \in TaskIds : zone_timer_start(t)
    \/ \E t \in TaskIds : zone_timer_finally(t)
    \/ \E r \in RunIds : execute_schedule(r)
    \/ \E r \in RunIds : run_done_callback(r)
    \/ \E r \in RunIds : clear_active_task(r)

\* zones started while idle, by hand or by a schedule run, and then left alone
ExpiryNext ==
    \/ \E t \in TaskIds : zone_timer_start(t)
    \/ \E t \in TaskIds : sleep_elapsed(t)
    \/ \E t \in TaskIds : zone_timer_finally(t)
    \/ \E zone \in MappedZones, minutes \in Minutes :
           active_jobs[zone] = NoJob /\ start_zone(zone, minutes)
    \/ \E payload \in Payloads : create_schedule(payload)
    \/ clock <= Len(Polls) /\ evaluate_schedules(Polls[clock])
    \/ \E r \in RunIds : execute_schedule(r)
    \/ \E r \in RunIds : run_done_callback(r)
    \/ \E r \in RunIds : clear_active_task(r)
    \/ AdvanceTime

\* the event loop runs every ready callback, and requests cannot keep the
\* clock from advancing: time passes whenever the loop keeps running idle
ExpirySpec ==
    /\ Init /\ [][ExpiryNext]_vars
    /\ WF_vars(ReadyStep)
    /\ WF_vars(\E t \in TaskIds : sleep_elapsed(t))
    /\ SF_vars(AdvanceTime)

\* the schedule loop over two schedules due at the same minute, whose runs
\* complete, are refused a busy zone, are refused by the rain lock or are
\* cancelled by the removal of their schedule (schedule B)
LoopNext ==
    \/ \E t \in TaskIds : zone_timer_start(t)
    \/ \E t \in TaskIds : sleep_elapsed(t)
    \/ \E t \in TaskIds : zone_timer_finally(t)
    \/ \E hours \in Hours : set_rain_lock(hours)
    \/ \E c \in CallIds, zone \in ZoneIds : shutdown_turn_zone_off(c, zone)
    \/ \E c \in CallIds, zone \in ZoneIds : gather_done_callback(c, zone)
    \/ \E c \in CallIds : resume_shutdown_all_zones(c)
    \/ \E payload \in LoopPayloads : create_schedule(payload)
    \/ delete_schedule(SchedB.id)
    \/ clock <= Len(Polls) /\ evaluate_schedules(Polls[clock])
    \/ \E r \in RunIds : execute_schedule(r)
    \/ \E r \in RunIds : run_done_callback(r)
    \/ \E r \in RunIds : clear_active_task(r)
    \/ AdvanceTime

LoopSpec == Init /\ [][LoopNext]_vars

\* the schedule loop and its runs while the schedule is created, replaced
\* and deleted
StoreNext ==
    \/ \E t \in TaskIds : zone_timer_start(t)
    \/ \E t \in TaskIds : sleep_elapsed(t)
    \/ \E t \in TaskIds : zone_timer_finally(t)
    \/ \E payload \in Payloads : create_schedule(payload)
    \/ \E payload \in Payloads : update_schedule(payload)
    \/ \E payload \in Payloads : delete_schedule(payload.id)
    \/ clock <= Len(Polls) /\ evaluate_schedules(Polls[clock])
    \/ \E r \in RunIds : execute_schedule(r)
    \/ \E r \in RunIds : run_done_callback(r)
    \/ \E r \in RunIds : clear_active_task(r)
    \/ AdvanceTime

StoreSpec == Init /\ [][StoreNext]_vars

\* the same under the scheduling of the event loop: ready callbacks run, due
\* sleeps fire, and time passes whenever the loop is idle
FairStoreSpec ==
    /\ Init /\ [][StoreNext]_vars
    /\ WF_vars(ReadyStep)
    /\ WF_vars(\E t \in TaskIds : sleep_elapsed(t))
    /\ SF_vars(AdvanceTime)

\* the second of the minute before the due minute at which the loop makes its
\* first pass, and the time of its i-th pass: one pass every PollSeconds
Phases == {0, 1, 15, 29}
PollAt(phase, i) == DtPlus(DateTime(0, 5, 59, 0), phase + PollSeconds * (i - 1))

\* schedule A is stored before its due minute, with no run and no last-run
\* time; the loop starts at any phase
WindowInit ==
    /\ pins = [p \in PinIds |-> FALSE]
    /\ active_jobs = [z \in ZoneIds |-> NoJob]
    /\ rain_lock_until = NoLock
    /\ tasks = [t \in TaskIds |-> FreeTask]
    /\ calls = [c \in CallIds |-> FreeCall]
    /\ ready = <<>>
    /\ schedules = [sid \in SchedIds |-> IF sid = SchedA.id THEN SchedA ELSE NoSchedule]
    /\ order = <<SchedA.id>>
    /\ last_run = [sid \in SchedIds |-> NoRun]
    /\ active_tasks = [sid \in SchedIds |-> 0]
    /\ runs = [r \in RunIds |-> FreeRun]
    /\ clock = 1
    /\ launched = [sid \in SchedIds |-> <<>>]
    /\ probe \in {[fn |-> "loop", phase |-> ph] : ph \in Phases}
    /\ last = Label("init", "none")

\* the loop passing through the due minute of the schedule, next to manual
\* starts; the rain lock stays off
WindowNext ==
    \/ \E t \in TaskIds : zone_timer_start(t)
    \/ \E t \in TaskIds : sleep_elapsed(t)
    \/ \E t \in TaskIds : zone_timer_finally(t)
    \/ \E zone \in MappedZones, minutes \in Minutes : start_zone(zone, minutes)
    \/ \E c \in CallIds : resume_start_zone(c)
    \/ clock <= MaxPasses /\ probe.fn = "loop" /\ evaluate_schedules(PollAt(probe.phase, clock))
    \/ \E r \in RunIds : execute_schedule(r)
    \/ \E r \in RunIds : run_done_callback(r)
    \/ \E r \in RunIds : clear_active_task(r)
    \/ AdvanceTime

WindowSpec == WindowInit /\ [][WindowNext]_vars

\* should_run looked at alone: schedules that are enabled or not, with no
\* days, some days or all days, starting at midnight, in the morning or in
\* the last minute of the day
ProbeSchedules ==
    {[id |-> "A", start_time |-> [hour |-> st[1], minute |-> st[2]], days |-> ds,
      is_enabled |-> en, duration |-> 1, sequence |-> <<>>] :
        st \in {<<0, 0>>, <<6, 0>>, <<23, 59>>},
        ds \in {{}, {"Mon"}, {"Tue", "Sun"}, {DAY_NAMES[i] : i \in 1..DaysPerWeek}},
        en \in BOOLEAN}
\* instants around the due minute and at the ends of the day, on a Monday, a
\* Tuesday, a Sunday and the Monday after
ProbeNows(schedule) ==
    LET runAt == (schedule.start_time.hour * MinutesPerHour + schedule.start_time.minute)
                     * SecondsPerMinute
    IN  {[day |-> d, sec |-> sec] :
            d \in {0, 1, DaysPerWeek - 1, DaysPerWeek},
            sec \in {x \in {0, runAt - 1, runAt, runAt + 1, runAt + SecondsPerMinute - 1,
                            runAt + SecondsPerMinute, SecondsPerDay - 1} :
                        x >= 0 /\ x < SecondsPerDay}}
\* no last run, or one on the same date, the day before or a week before
ProbeLastRuns(now) ==
    {NoRun} \cup {[day |-> d, sec |-> sec] :
                     d \in {x \in {now.day, now.day - 1, now.day - DaysPerWeek} : x >= 0},
                     sec \in {0, SecondsPerDay - 1}}

ShouldRunInit ==
    /\ pins = [p \in PinIds |-> FALSE]
    /\ active_jobs = [z \in ZoneIds |-> NoJob]
    /\ rain_lock_until = NoLock
    /\ tasks = [t \in TaskIds |-> FreeTask]
    /\ calls = [c \in CallIds |-> FreeCall]
    /\ ready = <<>>
    /\ schedules = [sid \in SchedIds |-> NoSchedule]
    /\ order = <<>>
    /\ last_run = [sid \in SchedIds |-> NoRun]
    /\ active_tasks = [sid \in SchedIds |-> 0]
    /\ runs = [r \in RunIds |-> FreeRun]
    /\ clock = 1
    /\ launched = [sid \in SchedIds |-> <<>>]
    /\ \E schedule \in ProbeSchedules : \E now \in ProbeNows(schedule) :
           \E lastRun \in ProbeLastRuns(now) :
               probe = [fn |-> "should_run", schedule |-> schedule, now |-> now,
                        lastRun |-> lastRun, result |-> "none"]
    /\ last = Label("init", "none")

\* schedule.should_run(now, last_run)
call_should_run ==
    /\ probe.fn = "should_run" /\ probe.result = "none"
    /\ probe' = [probe EXCEPT !.result =
                     IF should_run(probe.schedule, probe.now, probe.lastRun)
                     THEN "true" ELSE "false"]
    /\ last' = Label("should_run", probe'.result)
    /\ UNCHANGED <<pins, active_jobs, rain_lock_until, tasks, calls, ready>>
    /\ UNCHANGED <<schedules, order, last_run, active_tasks, runs, clock, launched>>

ShouldRunNext == call_should_run

ShouldRunSpec == ShouldRunInit /\ [][ShouldRunNext]_vars

\* ids as they come in a reorder request or in the order list of the file:
\* those of the schedules and one that no schedule has
UnknownId == "X"
RequestIds == SchedIds \cup {UnknownId}
IdLists == UNION {[1..n -> RequestIds] : n \in 0..MaxOrderLen}
PayloadOf(sid) == CHOOSE payload \in LoopPayloads : payload.id = sid
Stored(sch) == {sid \in SchedIds : sch[sid] # NoSchedule}
Elements(seq) == {seq[i] : i \in 1..Len(seq)}

\* schedules.json: the valid schedule payloads in the order they are listed,
\* and the order list; a missing file reads as two empty lists
Files ==
    {[schedules |-> sc, order |-> ord] :
        sc \in {<<>>, <<"A">>, <<"B">>, <<"A", "B">>, <<"B", "A">>}, ord \in IdLists}

\* ScheduleStore._load_from_disk: the order list keeps its entries that name a
\* loaded schedule, then the loaded ids that it lacks
LoadOrder(file) ==
    LET kept == SelectSeq(file.order, LAMBDA x : x \in Elements(file.schedules))
    IN  kept \o SelectSeq(file.schedules, LAMBDA x : x \notin Elements(kept))

OrderInit ==
    /\ pins = [p \in PinIds |-> FALSE]
    /\ active_jobs = [z \in ZoneIds |-> NoJob]
    /\ rain_lock_until = NoLock
    /\ tasks = [t \in TaskIds |-> FreeTask]
    /\ calls = [c \in CallIds |-> FreeCall]
    /\ ready = <<>>
    /\ \E file \in Files :
           /\ schedules = [sid \in SchedIds |-> IF sid \in Elements(file.schedules)
                                                 THEN PayloadOf(sid) ELSE NoSchedule]
           /\ order = LoadOrder(file)
    /\ last_run = [sid \in SchedIds |-> NoRun]
    /\ active_tasks = [sid \in SchedIds |-> 0]
    /\ runs = [r \in RunIds |-> FreeRun]
    /\ clock = 1
    /\ launched = [sid \in SchedIds |-> <<>>]
    /\ probe = NoProbe
    /\ last = Label("load_from_disk", "none")

\* first loop of ScheduleStore.reorder: the ids of the request that name a
\* stored schedule, each at its first mention
RECURSIVE ReorderHead(_, _)
ReorderHead(identifiers, seen) ==
    IF identifiers = <<>> THEN <<>>
    ELSE IF Head(identifiers) \in Stored(schedules) /\ Head(identifiers) \notin seen
    THEN <<Head(identifiers)>> \o ReorderHead(Tail(identifiers), seen \cup {Head(identifiers)})
    ELSE ReorderHead(Tail(identifiers), seen)

\* POST /api/schedules/reorder: ScheduleStore.reorder
reorder_schedules(identifiers) ==
    LET head == ReorderHead(identifiers, {})
    IN  /\ order' = head \o SelectSeq(order, LAMBDA x : x \notin Elements(head)
                                                         /\ x \in Stored(schedules))
        /\ last' = Label("reorder_schedules", "ok")
        /\ UNCHANGED <<pins, active_jobs, rain_lock_until, tasks, calls, ready>>
        /\ UNCHANGED <<schedules, last_run, active_tasks, runs, clock, launched, probe>>

\* the store loaded from a file and then changed by requests
OrderNext ==
    \/ \E payload \in LoopPayloads : create_schedule(payload)
    \/ \E payload \in LoopPayloads : update_schedule(payload)
    \/ \E sid \in SchedIds : delete_schedule(sid)
    \/ \E identifiers \in IdLists : reorder_schedules(identifiers)

OrderSpec == OrderInit /\ [][OrderNext]_vars

\* the callback at the head of the ready queue, of a timer or of a suspended
\* request handler
ZoneReadyStep ==
    \/ \E t \in TaskIds : zone_timer_start(t)
    \/ \E t \in TaskIds : zone_timer_finally(t)
    \/ \E c \in CallIds : resume_start_zone(c)
    \/ \E c \in CallIds : resume_stop_zone(c)
    \/ \E c \in CallIds, zone \in ZoneIds : shutdown_turn_zone_off(c, zone)
    \/ \E c \in CallIds, zone \in ZoneIds : gather_done_callback(c, zone)
    \/ \E c \in CallIds : resume_shutdown_all_zones(c)

\* manual control and the rain delay under the scheduling of the event loop:
\* ready callbacks run, due sleeps fire, time passes whenever the loop is
\* idle, and requests do not come infinitely often within one instant: while
\* a sleep is counting down, time goes on
FairZoneSpec ==
    /\ Init /\ [][ZoneNext]_vars
    /\ WF_vars(ZoneReadyStep)
    /\ WF_vars(\E t \in TaskIds : sleep_elapsed(t))
    /\ SF_vars(AdvanceTime)
    /\ ([]<>(~Counting) \/ []<><<AdvanceTime>>_vars)

\* the whole service
Next == ZoneNext \/ ScheduleNext \/ AnyZoneNext \/ LoopNext \/ StoreNext \/ WindowNext

Spec == Init /\ [][Next]_vars
\* ======================================================================
\* Properties
\* ======================================================================
\* the timer tasks of a zone that were created and have not finished
LiveTimers(zone) == {t \in TaskIds : tasks[t].st # "free" /\ tasks[t].zone = zone}
AllPinsOff == \A p \in PinIds : ~pins[p]
EngageOps == {"set_rain_lock", "trigger_rain_delay"}
\* an engage call is suspended in _shutdown_all_zones
EngageAwaited == \E c \in CallIds : calls[c].kind \in EngageOps

\* C1: in every reachable state each zone has at most one zone-timer task
\* that was created and has not yet finished its cleanup.
C1_OneLiveTimerPerZone == \A z \in ZoneIds : Cardinality(LiveTimers(z)) <= 1

\* C2: whenever set_rain_lock or trigger_rain_delay(active) returns, every
\* configured pin is de-energized and the job map is empty.
C2_EngageSilencesAllZones ==
    (last.op \in EngageOps /\ last.result = "ok") => (AllPinsOff /\ JobKeys(active_jobs) = {})

\* C3: in every reachable state where the rain lock is active and no engage
\* call is still in flight, no pin is energized.
C3_NoPinEnergizedWhileLocked == (RainLockActive /\ ~EngageAwaited) => AllPinsOff

\* C4: a start made while the rain lock is active, by the manual handler or
\* by a step of a schedule run, answers RainLockActive and changes neither
\* the pins nor the job map; this lasts as long as the lock is active.
C4_StartWhileLockedFails ==
    [][RainLockActive =>
          /\ \A z \in MappedZones, m \in Minutes :
                 start_zone(z, m) =>
                     (last'.result = "RainLockActive" /\ pins' = pins /\ active_jobs' = active_jobs)
          /\ \A r \in RunIds :
                 (execute_schedule(r) /\ CallsStartZone(r)) =>
                     (last'.result = "RainLockActive" /\ pins' = pins /\ active_jobs' = active_jobs)]_vars

\* C4 witness: a step of a schedule run was refused by the active lock
C4_Witness == last = Label("execute_schedule", "RainLockActive") /\ RainLockActive

\* C5: a manual start on a zone with a live job (lock inactive) succeeds: when
\* the call returns after waiting for the old timer, it answers ok and the
\* zone has the new job, ending `minutes` from now, with a timer of its own.
C5_RestartSucceeds ==
    [][\A c \in CallIds :
          resume_start_zone(c) =>
              /\ last'.result = "ok"
              /\ active_jobs'[calls[c].zone] # NoJob
              /\ active_jobs'[calls[c].zone].until = calls[c].minutes * TicksPerMinute
              /\ Cardinality({t \in TaskIds : tasks'[t].st # "free" /\ tasks'[t].zone = calls[c].zone}) = 1]_vars

\* C6: stop_zone is total and idempotent on mapped zones: with or without a
\* live job the call answers ok, and when it returns the zone's pin is
\* de-energized and no job is recorded for the zone (so a second stop finds
\* and leaves that state).
C6_StopZoneTotal ==
    [][\A z \in MappedZones :
          (stop_zone(z) \/ \E c \in CallIds : calls[c].zone = z /\ resume_stop_zone(c)) =>
              \/ last'.result = "await"
              \/ (last'.result = "ok" /\ ~pins'[gpio_for_zone(z)] /\ active_jobs'[z] = NoJob)]_vars

\* C7: the cleanup of a timer only affects its own job: when the zone's
\* record belongs to a later job, the cleanup neither removes that record
\* nor de-energizes the pin.
C7_CleanupOnlyOwnJob ==
    [][\A t \in TaskIds :
          (zone_timer_finally(t)
             /\ active_jobs[tasks[t].zone] # NoJob
             /\ active_jobs[tasks[t].zone].task # t) =>
              /\ active_jobs'[tasks[t].zone] = active_jobs[tasks[t].zone]
              /\ pins'[gpio_for_zone(tasks[t].zone)] = pins[gpio_for_zone(tasks[t].zone)]]_vars

\* C8: a start with cancel_existing=False (a step of a schedule run) on a zone
\* that has a job, the lock being inactive, answers ZoneBusy and leaves the
\* job, its timer, its deadline and the pins unchanged.
C8_ZoneBusyNoEffect ==
    [][\A r \in RunIds :
          (execute_schedule(r) /\ CallsStartZone(r) /\ ~RainLockActive
             /\ active_jobs[StepZone(r)] # NoJob) =>
              (last'.result = "ZoneBusy" /\ active_jobs' = active_jobs
                 /\ tasks' = tasks /\ pins' = pins)]_vars

\* C8 witness: a run step was refused on a zone whose job is still running
C8_Witness ==
    /\ last = Label("execute_schedule", "ZoneBusy")
    /\ \E z \in MappedZones : active_jobs[z] # NoJob /\ active_jobs[z].task # Done

\* C9: a start whose zone id is outside 1..N answers InvalidZone and has no
\* effect: no task is created, no record is added, no pin is written.
C9_InvalidZoneNoEffect ==
    [][\A z \in ZoneIds \ MappedZones, m \in Minutes :
          start_zone(z, m) =>
              (last'.result = "InvalidZone" /\ tasks' = tasks
                 /\ active_jobs' = active_jobs /\ pins' = pins /\ ready' = ready)]_vars

\* the zone is energized exactly while its job is recorded and its timer
\* sleeps, and the timer's sleep ends at the job's deadline
OnUntilDeadline(z) ==
    IF active_jobs[z] = NoJob THEN ~pins[gpio_for_zone(z)]
    ELSE /\ active_jobs[z].task \in TaskIds
         /\ tasks[active_jobs[z].task].st # "free"
         /\ tasks[active_jobs[z].task].zone = z
         /\ tasks[active_jobs[z].task].left = active_jobs[z].until
         /\ pins[gpio_for_zone(z)] = (tasks[active_jobs[z].task].st \in {"sleeping", "woken"})

\* C10: a zone started for m minutes and left alone is on until its m minutes
\* have elapsed, and then its pin is de-energized and its record removed:
\* every started job reaches that state.
C10_NaturalExpiry ==
    /\ [](\A z \in MappedZones : OnUntilDeadline(z))
    /\ \A z \in MappedZones :
           (active_jobs[z] # NoJob) ~> (active_jobs[z] = NoJob /\ ~pins[gpio_for_zone(z)])

\* C10 witness: a timer elapsed on its own and left the zone off and unrecorded
C10_Witness ==
    /\ last = Label("zone_timer", "elapsed")
    /\ \E z \in MappedZones : active_jobs[z] = NoJob /\ ~pins[gpio_for_zone(z)] /\ LiveTimers(z) = {}

\* C11: over any sequence of loop passes, run completions or aborts and
\* rain-lock changes, a schedule that stays in the store is launched at most
\* once per calendar date: no date occurs twice among its launches.
C11_OneRunPerDate ==
    \A sid \in SchedIds : \A i, j \in 1..Len(launched[sid]) :
        i # j => launched[sid][i] # launched[sid][j]

\* C11 witness: the second poll inside the due minute found the schedule
\* launched today, its run already over, and launched nothing
C11_Witness ==
    /\ last = Label("evaluate_schedules", "idle")
    /\ clock = 3
    /\ launched["A"] = <<Polls[1].day>>
    /\ active_tasks["A"] = 0
    /\ should_run(schedules["A"], Polls[2], NoRun)

\* C12: a pass of the schedule loop that finds the rain lock active (expiry
\* set and not yet reached) evaluates nothing: it launches no run, registers
\* no run task and leaves every last-run date as it was.
C12_LockedTickEvaluatesNothing ==
    [][(rain_lock_until # NoLock /\ rain_lock_until > 0
          /\ clock <= Len(Polls) /\ evaluate_schedules(Polls[clock])) =>
           (runs' = runs /\ active_tasks' = active_tasks /\ last_run' = last_run
              /\ launched' = launched /\ ready' = ready)]_vars

\* C12 witness: a pass found the lock active while the schedule was due and
\* idle, and the schedule has still not been launched
C12_Witness ==
    /\ last = Label("evaluate_schedules", "locked")
    /\ schedules["A"] # NoSchedule
    /\ should_run(schedules["A"], Polls[clock - 1], last_run["A"])
    /\ active_tasks["A"] = 0
    /\ launched["A"] = <<>>

\* the zone timers in flight that a run of the schedule started
RunTimers(sid) == {t \in TaskIds : tasks[t].st # "free" /\ tasks[t].source = sid}

\* C13: within one run the steps are started in order and never overlap: at
\* most one zone timer started by the run is in flight at any time, a step
\* starts the zone of the next entry of the sequence, and it starts only when
\* the pin of the step before it is de-energised.
C13_StepsInOrderNoOverlap ==
    /\ [](\A sid \in SchedIds : Cardinality(RunTimers(sid)) <= 1)
    /\ [][\A r \in RunIds :
             (execute_schedule(r) /\ StepOutcome(r) = "await") =>
                 LET steps == Steps(runs[r].sched)
                     k == runs[r].k
                 IN  /\ runs'[r].k = k + 1
                     /\ tasks'[runs'[r].timer].zone = zone_for_pin(steps[k].pin)
                     /\ tasks'[runs'[r].timer].source = runs[r].sched.id
                     /\ k > 1 => ~pins[steps[k - 1].pin]]_vars

\* C13 witness: the run is in its second step, whose zone is on, after the
\* timer of its first step has ended and its pin is off
C13_Witness ==
    \E r \in RunIds :
        /\ runs[r].st = "waiting" /\ runs[r].k = 3
        /\ tasks[runs[r].timer].st = "sleeping"
        /\ RunTimers(runs[r].sched.id) = {runs[r].timer}
        /\ pins[Steps(runs[r].sched)[2].pin]
        /\ ~pins[Steps(runs[r].sched)[1].pin]

\* C14: a run starts the step after step k only when the timer of step k has
\* run its whole time, also when the zone of step k was stopped or restarted
\* by hand or shut down by the rain lock in between.
C14_NextStepAfterFullTime ==
    [][\A r \in RunIds :
          (execute_schedule(r) /\ runs[r].k > 1 /\ StepOutcome(r) = "await") =>
              runs[r].awaited = "elapsed"]_vars

\* the ways a step fails to start its zone
StepFailures == {"ZoneBusy", "RainLockActive", "InvalidPin"}

\* C15: a step whose start is refused with ZoneBusy or RainLockActive, or
\* whose pin is not managed (no stored schedule has one: ScheduleStep accepts
\* only managed pins), ends the run at once.  The refused step changes no
\* timer, job or pin, so the job occupying the zone is untouched; a run that
\* has ended starts no further step; and the last-run date stays that of the
\* dispatch, under which the schedule is not due again on that date.
C15_FailedStepEndsRun ==
    /\ [][\A r \in RunIds :
             (execute_schedule(r) /\ StepOutcome(r) \in StepFailures) =>
                 /\ runs'[r].st = "done"
                 /\ tasks' = tasks /\ active_jobs' = active_jobs /\ pins' = pins
                 /\ last_run' = last_run
                 /\ \A i \in 1..Len(Polls) :
                        Polls[i].day = last_run[runs[r].sched.id].day =>
                            ~should_run(schedules[runs[r].sched.id], Polls[i],
                                        last_run'[runs[r].sched.id])]_vars
    /\ [][\A r \in RunIds :
             runs[r].st = "done" =>
                 /\ ~execute_schedule(r)
                 /\ runs'[r].st \in {"done", "free"}
                 /\ \A t \in TaskIds :
                        (tasks[t].st = "free" /\ tasks'[t].st # "free") =>
                            tasks'[t].source # runs[r].sched.id]_vars

\* C15 witness: the second step of a run was refused on a zone held by a
\* manual job; the run has ended after its first step and the manual job and
\* its timer are still there
C15_Witness ==
    \E r \in RunIds :
        /\ last = Label("execute_schedule", "ZoneBusy")
        /\ runs[r].st = "done" /\ runs[r].k = 2
        /\ LET job == active_jobs[StepZone(r)]
           IN  /\ job # NoJob /\ job.source = "manual" /\ job.task # Done
               /\ tasks[job.task].st = "sleeping"
               /\ pins[Steps(runs[r].sched)[2].pin]
        /\ RunTimers(runs[r].sched.id) = {}

\* C16: no outcome of a run stops the schedule loop.  Whatever state the runs
\* are in (completed, refused a busy zone or by the rain lock, cancelled),
\* a pass of the loop goes on to the next pass, and a pass that finds the
\* lock inactive dispatches every stored schedule that is due and has no run
\* handle.
C16_LoopSurvivesRuns ==
    /\ [][(clock <= Len(Polls) /\ evaluate_schedules(Polls[clock])) =>
              clock' = clock + 1]_vars
    /\ [][(clock <= Len(Polls) /\ evaluate_schedules(Polls[clock])
             /\ ~(rain_lock_until # NoLock /\ rain_lock_until > 0)) =>
              \A sid \in SchedIds :
                  (/\ schedules[sid] # NoSchedule
                   /\ active_tasks[sid] = 0
                   /\ should_run(schedules[sid], Polls[clock], last_run[sid])) =>
                      /\ active_tasks'[sid] # 0
                      /\ runs'[active_tasks'[sid]].st = "pending"
                      /\ runs'[active_tasks'[sid]].sched = schedules[sid]
                      /\ \E i \in 1..Len(ready') :
                             ready'[i] = Entry("run", active_tasks'[sid], 0)]_vars

\* C16 witness: both schedules were dispatched on Monday and their runs have
\* ended; the pass of Tuesday has just dispatched both again
C16_Witness ==
    /\ last = Label("evaluate_schedules", "dispatched")
    /\ clock = Len(Polls) + 1
    /\ launched["A"] = <<Polls[1].day, Polls[Len(Polls)].day>>
    /\ launched["B"] = <<Polls[1].day, Polls[Len(Polls)].day>>
    /\ \A sid \in SchedIds :
           active_tasks[sid] # 0 /\ runs[active_tasks[sid]].st = "pending"

\* C17: clearing the rain lock, by DELETE /rain-lock or by a rain-delay
\* request with active = false, only sets the expiry to none: pins, jobs,
\* timers and whatever is queued stay as they are, so no zone that the lock
\* shut down is started again.
C17_ClearOnlyResetsExpiry ==
    [][(clear_rain_lock \/ \E hours \in {0} \cup Hours : trigger_rain_delay(FALSE, hours)) =>
          /\ rain_lock_until' = NoLock
          /\ pins' = pins /\ active_jobs' = active_jobs /\ tasks' = tasks
          /\ ready' = ready /\ calls' = calls]_vars

\* C17 witness: the lock was cleared after it had shut a zone down; the zone
\* is still off and has no job, though its old timer is still asleep
C17_Witness ==
    /\ last = Label("clear_rain_lock", "ok")
    /\ rain_lock_until = NoLock
    /\ AllPinsOff
    /\ \E t \in TaskIds : tasks[t].st = "sleeping" /\ active_jobs[tasks[t].zone] = NoJob

\* the run tasks of a schedule id that are executing: started or about to
\* start, and not ended by a cancellation that is already on its way
InFlight(sid) ==
    {r \in RunIds : /\ runs[r].sched.id = sid
                    /\ \/ runs[r].st \in {"queued", "waiting"}
                       \/ runs[r].st = "pending" /\ ~runs[r].cancel}

\* C18: each schedule id has at most one run task in flight, whatever
\* creations, replacements and deletions of the schedule happen between the
\* passes of the loop.
C18_OneRunPerId == \A sid \in SchedIds : Cardinality(InFlight(sid)) <= 1

\* C19: a pass sets the last-run time of every schedule it dispatches to the
\* time of the pass, in the step that creates the run task and registers its
\* handle; so whenever a run of a stored schedule is in flight, the last-run
\* date of the schedule is the date of that dispatch.
C19_LastRunBeforeLaunch ==
    /\ [][(clock <= Len(Polls) /\ evaluate_schedules(Polls[clock])) =>
              \A sid \in SchedIds :
                  (active_tasks[sid] = 0 /\ active_tasks'[sid] # 0) =>
                      /\ last_run'[sid] = Polls[clock]
                      /\ runs'[active_tasks'[sid]].st = "pending"]_vars
    /\ [](\A sid \in SchedIds :
              (schedules[sid] # NoSchedule /\ InFlight(sid) # {}) =>
                  /\ last_run[sid] # NoRun
                  /\ launched[sid] # <<>>
                  /\ last_run[sid].day = launched[sid][Len(launched[sid])])

\* C20: every run eventually ends, whether it completes, is refused or is
\* cancelled; the handle of a run is eventually removed from the store; and a
\* schedule without a handle that was last launched on an earlier day is
\* dispatched by a pass that finds it due and the lock inactive.
C20_RunEndsHandleCleared ==
    /\ \A r \in RunIds : (runs[r].st # "free") ~> (runs[r].st \in {"done", "free"})
    /\ \A r \in RunIds : (runs[r].st = "done") ~> (runs[r].st = "free")
    /\ \A sid \in SchedIds : (active_tasks[sid] # 0) ~> (active_tasks[sid] = 0)
    /\ [][(clock <= Len(Polls) /\ evaluate_schedules(Polls[clock])
             /\ ~(rain_lock_until # NoLock /\ rain_lock_until > 0)) =>
              \A sid \in SchedIds :
                  (/\ schedules[sid] # NoSchedule
                   /\ active_tasks[sid] = 0
                   /\ launched[sid] # <<>>
                   /\ launched[sid][Len(launched[sid])] < Polls[clock].day
                   /\ should_run(schedules[sid], Polls[clock], NoRun)) =>
                      /\ active_tasks'[sid] # 0
                      /\ launched'[sid] = Append(launched[sid], Polls[clock].day)]_vars

\* C20 witness: the run of Monday has ended and its handle was removed; the
\* schedule, never deleted since, has just been dispatched again on Tuesday
C20_Witness ==
    /\ last = Label("evaluate_schedules", "dispatched")
    /\ launched["A"] = <<Polls[1].day, Polls[Len(Polls)].day>>
    /\ Cardinality({r \in RunIds : runs[r].st # "free"}) = 1
    /\ active_tasks["A"] # 0 /\ runs[active_tasks["A"]].st = "pending"

\* seconds since the midnight that begins day 0
Seconds(dt) == dt.day * SecondsPerDay + dt.sec
\* the instant lies in the due minute of the schedule on the instant's date
InWindow(schedule, dt) ==
    LET runAt == dt.day * SecondsPerDay
                   + (schedule.start_time.hour * MinutesPerHour + schedule.start_time.minute)
                       * SecondsPerMinute
    IN  runAt <= Seconds(dt) /\ Seconds(dt) < runAt + SecondsPerMinute
\* the passes the loop has made in the due minute of schedule A
WindowPasses ==
    {i \in 1..(clock - 1) : InWindow(schedules["A"], PollAt(probe.phase, i))}

\* C21: the loop passing every 30 seconds, an enabled schedule that comes due
\* with the lock inactive, no run in flight and no run yet that day is
\* dispatched exactly once in its due minute: some pass falls in the minute,
\* the first such pass launches it, and no other pass launches it again.
C21_OncePerWindow ==
    /\ \E i \in 1..MaxPasses : InWindow(schedules["A"], PollAt(probe.phase, i))
    /\ WindowPasses = {} => launched["A"] = <<>>
    /\ WindowPasses # {} => launched["A"] = <<PollAt(probe.phase, 1).day>>

\* C21 witness: the second pass in the due minute found the schedule idle
\* again, its run already over, and did not launch it a second time
C21_Witness ==
    /\ last = Label("evaluate_schedules", "idle")
    /\ Cardinality(WindowPasses) = 2
    /\ clock - 1 \in WindowPasses
    /\ active_tasks["A"] = 0
    /\ launched["A"] = <<PollAt(probe.phase, 1).day>>
    /\ probe.phase = 29

\* C22: should_run answers true exactly when the schedule is enabled, the
\* weekday of now is one of its days, now lies in the minute that begins at
\* the start time on the date of now (its end excluded), and there is no last
\* run or its date is not the date of now; otherwise it answers false.
C22_ShouldRunExact ==
    (probe.fn = "should_run" /\ probe.result # "none") =>
        ((probe.result = "true") <=>
            (/\ probe.schedule.is_enabled
             /\ DAY_NAMES[(probe.now.day % DaysPerWeek) + 1] \in probe.schedule.days
             /\ InWindow(probe.schedule, probe.now)
             /\ (probe.lastRun = NoRun \/ probe.lastRun.day # probe.now.day)))

\* C22 witness: an enabled schedule with the weekday among its days and no
\* last run is refused at the instant one minute after its start time
C22_Witness ==
    /\ probe.fn = "should_run" /\ probe.result = "false"
    /\ probe.schedule.is_enabled
    /\ DAY_NAMES[(probe.now.day % DaysPerWeek) + 1] \in probe.schedule.days
    /\ probe.lastRun = NoRun
    /\ probe.now.sec = (probe.schedule.start_time.hour * MinutesPerHour
                          + probe.schedule.start_time.minute + 1) * SecondsPerMinute

\* a list without repeated entries
NoDuplicates(seq) == \A i, j \in 1..Len(seq) : i # j => seq[i] # seq[j]

\* C23: after the load from disk and after any upserts, deletes and reorders,
\* the order list has no duplicates and holds exactly the ids of the stored
\* schedules; a reorder keeps, of the ids it is given, the stored ones at
\* their first mention, and appends the stored ids it was not given in the
\* order they had before.
C23_OrderConsistent ==
    /\ [](NoDuplicates(order) /\ Elements(order) = Stored(schedules))
    /\ [][\A identifiers \in IdLists :
             reorder_schedules(identifiers) =>
                 LET given == SelectSeq(order', LAMBDA x : x \in Elements(identifiers))
                     others == SelectSeq(order', LAMBDA x : x \notin Elements(identifiers))
                 IN  /\ order' = given \o others
                     /\ given = ReorderHead(identifiers, {})
                     /\ others = SelectSeq(order, LAMBDA x : x \notin Elements(identifiers))
                     /\ NoDuplicates(order')
                     /\ Elements(order') = Stored(schedules)]_vars

\* C24: deleting a schedule stops its run in flight: while the schedule is
\* gone from the store, every zone timer that a run of it started is on its
\* way out (cancelled, its cleanup turning the pin off), and no run of it
\* starts a further step.
C24_DeleteStopsRun ==
    /\ [](\A sid \in SchedIds :
              schedules[sid] = NoSchedule =>
                  \A t \in RunTimers(sid) : tasks[t].cancel)
    /\ [][\A r \in RunIds :
             (execute_schedule(r) /\ StepOutcome(r) = "await") =>
                 schedules[runs[r].sched.id] # NoSchedule]_vars

\* C25: the completion callback of a run clears only the handle of that run:
\* a handle that names another run stays registered, and no other run and no
\* zone timer is cancelled by it.
C25_CallbackClearsOwnHandle ==
    [][\A r \in RunIds :
          clear_active_task(r) =>
              /\ \A sid \in SchedIds :
                     active_tasks[sid] # r => active_tasks'[sid] = active_tasks[sid]
              /\ \A x \in RunIds \ {r} : runs'[x] = runs[x]
              /\ tasks' = tasks]_vars

\* the zone timers that have energized the pin and have not yet run their
\* cleanup
PinTimers(p) ==
    {t \in TaskIds : /\ tasks[t].st \in {"sleeping", "woken"}
                     /\ gpio_for_zone(tasks[t].zone) = p}

\* C26: an energized pin always has a zone timer in flight for it, whose
\* cleanup turns it off; time never passes beyond the end of the sleep of
\* such a timer, so the pin is off when the minutes of its job are over, if
\* not before; and every energized pin is eventually de-energized.
C26_EnergizedPinHasTimer ==
    /\ [](\A p \in PinIds : pins[p] => PinTimers(p) # {})
    /\ [][AdvanceTime =>
             \A p \in PinIds : \A t \in PinTimers(p) :
                 /\ tasks[t].st = "sleeping"
                 /\ tasks'[t].left >= 0 /\ tasks'[t].left < tasks[t].left]_vars
    /\ [][\A t \in TaskIds :
             zone_timer_finally(t) => ~pins'[gpio_for_zone(tasks[t].zone)]]_vars
    /\ \A p \in PinIds : pins[p] ~> ~pins[p]

\* C26 witness: a cancelled timer has just run its cleanup, which turned its
\* pin off, while the other pin is still energized under its own timer
C26_Witness ==
    /\ last = Label("zone_timer", "cancelled")
    /\ \E p, q \in PinIds :
           /\ ~pins[p] /\ PinTimers(p) = {}
           /\ pins[q] /\ \E t \in PinTimers(q) : tasks[t].st = "sleeping" /\ tasks[t].left > 0
=============================================================================
